---- MODULE Spec2Model ----
(***************************************************************************)
(* Model of src/src/alert_system.py (class AlertSystem), of                 *)
(* src/src/detector.py (WeaponDetector.detect) and of the detection loops  *)
(* of src/src/gui_main.py (VideoThread, MainWindow) and                    *)
(* src/src/terminal_detection.py (TerminalDetection).  Each part has its   *)
(* own specification: Spec and SpecCaller (AlertSystem), SpecDetector,     *)
(* SpecPipeline; the variables of the other parts stay as constructed.     *)
(*                                                                         *)
(* Threads call trigger_alert, get_recent_alerts, clear_alerts and         *)
(* get_alert_count on one shared AlertSystem.  trigger_alert is modelled   *)
(* statement group by statement group (one action per group that touches   *)
(* shared state or reads the clock), so that every interleaving the        *)
(* threading.Lock allows is explored.  The clock (time.time() and          *)
(* datetime.now(), the same wall clock) is read in whole seconds and never *)
(* goes back: the variable now holds the latest reading, and each reading  *)
(* returns any value from now up to MaxTime.  A caller keeps what a call    *)
(* returned for as long as it likes while the other thread goes on, and a  *)
(* KeyboardInterrupt may end a trigger_alert call of the main thread       *)
(* between any two statement groups.                                       *)
(***************************************************************************)
EXTENDS Integers, Sequences, FiniteSets

\* ------------------------------------------------------------------ bounds
\* Total number of trigger_alert calls explored.
MaxCalls == 2
\* The clock reads 0 to MaxTime.
MaxTime == 2
\* Number of alerts already accepted in the long-running initial state.
PreFill == 99
\* Number of detect calls explored on a detector used on its own.
MaxDetects == 2
\* Number of frames the captures deliver at most.
MaxFrames == 2
\* The clock of the detection loops reads 0 to MaxPeriods cooldown periods.
MaxPeriods == 2

\* ------------------------------------------------------- program constants
\* alert_system.py:153-154: the log keeps the last 100 alerts.
LogCap == 100
\* alert_system.py:41-43: a negative cooldown is replaced by 5.
DefaultCooldown == 5

Threads == {1, 2}
NoThread == 0
\* The main thread of the program: Python raises KeyboardInterrupt in it and
\* in no other thread.  It runs TerminalDetection.start and MainWindow's
\* slots.
MainThread == 1

\* Constructor calls explored from the fresh state: the cooldown argument
\* (negative, zero, positive) and whether the sound file could be loaded.
ConstructorArgs == {<<-1, TRUE>>, <<0, FALSE>>, <<1, TRUE>>}

\* ------------------------------------------------------------ Python values
\* The frame argument is "None", "not_array" (an object that is no numpy
\* array), "empty" (an array of size 0) or "image".

\* A Python object given where a list is expected: iterable or not (None).
PyList(s) == [iterable |-> TRUE, items |-> s]
PyNone == [iterable |-> FALSE, items |-> <<>>]

\* Arguments (frame, detections, confidence_scores) of the trigger_alert calls
\* explored: each way the validation rejects a call, a call the detection
\* loop makes, and a call whose confidence_scores cannot be copied.
TriggerArgs ==
    {<<"None", PyList(<<"pistol">>), PyList(<<95>>)>>,
     <<"not_array", PyList(<<"pistol">>), PyList(<<95>>)>>,
     <<"empty", PyList(<<"pistol">>), PyList(<<95>>)>>,
     <<"image", PyList(<<>>), PyList(<<>>)>>,
     <<"image", PyList(<<"pistol">>), PyList(<<95>>)>>,
     <<"image", PyList(<<"pistol">>), PyNone>>}

\* bool(x) of a list or None.
Truthy(x) == x.iterable /\ Len(x.items) > 0

\* Return values: None, a dict (alert_info), a list of dicts, an int.
RetNone == [kind |-> "None", v |-> <<>>, n |-> 0]
RetDict(r) == [kind |-> "dict", v |-> <<r>>, n |-> 0]
RetList(s) == [kind |-> "list", v |-> s, n |-> 0]
RetInt(k) == [kind |-> "int", v |-> <<>>, n |-> k]

\* An optional value: <<>> is None, <<x>> is x.
None == <<>>
Some(x) == <<x>>

Min(a, b) == IF a <= b THEN a ELSE b
Max(a, b) == IF a >= b THEN a ELSE b

\* Python slice s[start:] for an integer start (negative counts from the end,
\* out-of-range is clamped).
PySliceFrom(s, start) ==
    LET n == Len(s)
        lo == IF start < 0 THEN Max(n + start, 0) ELSE Min(start, n)
    IN  SubSeq(s, lo + 1, n)

VARIABLES
    now,               \* the latest reading of the wall clock
    cooldown,          \* self.cooldown
    sound,             \* self.sound is not None
    last_alert_time,   \* self.last_alert_time
    alert_log,         \* self.alert_log
    lock,              \* holder of self._lock, or NoThread
    pc,                \* per thread: position in the method it runs
    op,                \* per thread: the method it runs
    frame, detections, confidence_scores, count,   \* per thread: arguments
    current_time,      \* per thread: can_alert's local current_time
    granted,           \* per thread: what can_alert() returned
    imwrite,           \* per thread: "ok" or "failed", how cv2.imwrite ended in this call
    played,            \* per thread: the sound thread was dispatched in this call
    screenshot_path,   \* per thread: local screenshot_path
    alert_info,        \* per thread: local alert_info
    ret,               \* per thread: value returned by the call
    next_id,           \* identity of the next dict object created
    accepted_at,       \* per thread: the value this call wrote to last_alert_time
    ncalls,            \* history: trigger_alert calls made so far
    accepted,          \* history: values written to last_alert_time
    appended,          \* history: ids appended since the last clear
    appended_at,       \* history: for each id of appended, the accepted_at of its call
    overlapped,        \* history: two trigger_alert calls ran concurrently
    returned,          \* history: trigger_alert calls that returned a record
                       \*          they had appended since the last clear
    \* ---- detector.py: a WeaponDetector
    model_loaded,      \* self.model_loaded (and self.model is not None)
    frame_count,       \* self.frame_count
    total_detections,  \* self.total_detections
    error_count,       \* self.error_count
    d_frame,           \* the frame argument of the last detect call
    d_out,             \* what self.model(frame) did in the last detect call
    d_ret,             \* the tuple the last detect call returned
    d_calls,           \* history: detect calls that have returned so far
    \* ---- gui_main.py, terminal_detection.py: the detection loop
    mode,              \* "gui" (MainWindow with its VideoThread), "terminal" or "none"
    running,           \* self.running of the VideoThread / TerminalDetection
    lpc,               \* position of the loop thread (VideoThread.run, TerminalDetection.start)
    mainpc,            \* position of the GUI thread: "ready", or "wait" inside VideoThread.stop
    video_thread,      \* MainWindow.video_thread is not None
    is_running,        \* MainWindow.is_running
    cap,               \* the cv2.VideoCapture: "none", "open", "released"
    source,            \* the camera or stream: "ok" or "dead" (every read fails from now on)
    frames,            \* frames read so far from the captures of this program
    exit_reason,       \* history: why the loop was left
    surfaced,          \* history: an error was shown to the user
    stop_observed,     \* history: the loop test has read running = False
    signals            \* detection_signal emissions queued for the GUI thread

shared == <<cooldown, sound, last_alert_time, alert_log, lock>>
locals == <<pc, op, frame, detections, confidence_scores, count, current_time,
            granted, imwrite, played, screenshot_path, alert_info, ret, accepted_at>>
history == <<next_id, ncalls, accepted, appended, appended_at, overlapped,
             returned>>
avars == <<now, shared, locals, history>>
dvars == <<model_loaded, frame_count, total_detections, error_count, d_frame, d_out,
           d_ret, d_calls>>
pvars == <<mode, running, lpc, mainpc, video_thread, is_running, cap, source, frames,
           exit_reason, surfaced, stop_observed, signals>>
vars == <<avars, dvars, pvars>>

\* ------------------------------------------------------------- __init__
\* alert_system.py:40-43, 55
ClampCooldown(c) == IF c < 0 THEN DefaultCooldown ELSE c

\* The record keeping the list object it was given.
ListCall_SameObject(x) == "callers"

\* alert_system.py:143-144: list(x) builds a new list object with the items
\* of x.  The value says whose object the result is: "new", an object only
\* the record refers to, or "callers", the object x the caller passed.
ListCall(x) == "new"

\* The alert_info dict built at alert_system.py:141-146.  id is the identity
\* of the dict object; screenshot is the path (named by its timestamp) or
\* None; detections_obj and scores_obj say which list objects the dict's
\* two lists are.
MakeAlertInfo(id, timestamp, dets, scores, path) ==
    [id |-> id,
     timestamp |-> timestamp,
     detections |-> dets.items,
     confidence_scores |-> scores.items,
     screenshot |-> path,
     detections_obj |-> ListCall(dets),
     scores_obj |-> ListCall(scores)]

NoInfo == MakeAlertInfo(0, 0, PyList(<<>>), PyList(<<>>), None)

\* The record of the i-th of the alerts accepted one after the other within
\* the second MaxTime, with cooldown 0.
EarlierAlert(i) ==
    MakeAlertInfo(i, MaxTime, PyList(<<"pistol">>), PyList(<<95>>), Some(MaxTime))

IdleLocals ==
    /\ pc = [t \in Threads |-> "idle"]
    /\ op = [t \in Threads |-> "none"]
    /\ frame = [t \in Threads |-> "None"]
    /\ detections = [t \in Threads |-> PyNone]
    /\ confidence_scores = [t \in Threads |-> PyNone]
    /\ count = [t \in Threads |-> 0]
    /\ current_time = [t \in Threads |-> 0]
    /\ granted = [t \in Threads |-> FALSE]
    /\ imwrite = [t \in Threads |-> "none"]
    /\ played = [t \in Threads |-> FALSE]
    /\ screenshot_path = [t \in Threads |-> None]
    /\ alert_info = [t \in Threads |-> NoInfo]
    /\ ret = [t \in Threads |-> RetNone]
    /\ accepted_at = [t \in Threads |-> 0]

\* State right after AlertSystem(cooldown=c): alert_system.py:31-73.
FreshAlertSystem(c, loaded) ==
    /\ cooldown = ClampCooldown(c)
    /\ sound = loaded
    /\ now = 0
    /\ last_alert_time = 0
    /\ alert_log = <<>>
    /\ lock = NoThread
    /\ IdleLocals
    /\ next_id = 1
    /\ ncalls = 0
    /\ accepted = <<>>
    /\ appended = <<>>
    /\ appended_at = <<>>
    /\ overlapped = FALSE
    /\ returned = 0

\* The AlertSystem after each of the constructor calls explored.
InitFresh == \E a \in ConstructorArgs : FreshAlertSystem(a[1], a[2])

\* State of an AlertSystem(cooldown=0) with its sound loaded, after PreFill
\* alerts were accepted one after the other within the second MaxTime (every
\* call returned before the next began, every screenshot was written).
InitLongRunning ==
    /\ cooldown = ClampCooldown(0)
    /\ sound = TRUE
    /\ now = MaxTime
    /\ last_alert_time = MaxTime
    /\ alert_log = [i \in 1..PreFill |-> EarlierAlert(i)]
    /\ lock = NoThread
    /\ IdleLocals
    /\ next_id = PreFill + 1
    /\ ncalls = 0
    /\ accepted = [i \in 1..PreFill |-> MaxTime]
    /\ appended = [i \in 1..PreFill |-> i]
    /\ appended_at = [i \in 1..PreFill |-> MaxTime]
    /\ overlapped = FALSE
    /\ returned = PreFill

\* ------------------------------------------------- WeaponDetector values
\* What detect returns: the frame ("blank" for np.zeros((480, 640, 3)), "copy"
\* for frame.copy() untouched, "annotated" for the copy drawn on), the two
\* lists and has_detection.
DetectReturn(f, dets, scores, has) ==
    [frame |-> f, detections |-> dets, confidence_scores |-> scores,
     has_detection |-> has]

\* A box of a result: its class name, its confidence (in percent) and where
\* its processing raises: "no", "before_append" (detector.py:160-181, a
\* malformed xyxy, conf or cls) or "after_append" (detector.py:189-219, the
\* drawing).
Box(name, conf, fails) == [class_name |-> name, conf |-> conf, fails |-> fails]

\* A result of the model: result.boxes is None, is a sequence of boxes, or
\* reading it raises.
ResultNone == [kind |-> "None", boxes |-> <<>>]
ResultRaises == [kind |-> "raises", boxes |-> <<>>]
ResultBoxes(bs) == [kind |-> "boxes", boxes |-> bs]

\* What self.model(frame, ...) does: it raises, or it returns results.
ModelRaises == [raises |-> TRUE, results |-> <<>>]
ModelReturns(rs) == [raises |-> FALSE, results |-> rs]

\* No detect call made yet.
NoDetectReturn == DetectReturn("none", <<>>, <<>>, FALSE)

\* A WeaponDetector right after __init__ (detector.py:44-61) whose load_model
\* ended with model_loaded = loaded.
NewDetector(loaded) ==
    /\ model_loaded = loaded
    /\ frame_count = 0
    /\ total_detections = 0
    /\ error_count = 0
    /\ d_frame = "None"
    /\ d_out = ModelRaises
    /\ d_ret = NoDetectReturn
    /\ d_calls = 0

\* ------------------------------------------------- the detection loop
\* No detection loop has been constructed.
NoPipeline ==
    /\ mode = "none"
    /\ running = FALSE
    /\ lpc = "none"
    /\ mainpc = "ready"
    /\ video_thread = FALSE
    /\ is_running = FALSE
    /\ cap = "none"
    /\ source = "ok"
    /\ frames = 0
    /\ exit_reason = "none"
    /\ surfaced = FALSE
    /\ stop_observed = FALSE
    /\ signals = <<>>

\* An AlertSystem used on its own: no detector call, no detection loop.
Init == (InitFresh \/ InitLongRunning) /\ NewDetector(TRUE) /\ NoPipeline

Set(f, t, v) == [f EXCEPT ![t] = v]

\* ----------------------------------------------------------------- the clock
\* The clock of the detection loops: readings are whole cooldown periods, so
\* that the default cooldown can elapse between two alerts.
PipelineClock == {k * DefaultCooldown : k \in 0..MaxPeriods}

\* The values the clock reads: every second up to MaxTime for an AlertSystem
\* used on its own, the periods of PipelineClock in a detection loop.
Clock == IF mode = "none" THEN 0..MaxTime ELSE PipelineClock

\* The readings the clock can give once it has read r.
ReadingsFrom(r) == {x \in Clock : x >= r}

\* --------------------------------------------------------- trigger_alert
\* Validate without the frame.size == 0 test (lines 100-102 left out).
Validate_NoSizeCheck(f, d) ==
    IF f \in {"None", "not_array"} THEN "invalid_frame"
    ELSE IF ~Truthy(d) THEN "no_detections"
    ELSE "ok"

\* alert_system.py:96-106: the reason the inputs are rejected, or "ok".
Validate(f, d) ==
    IF f \in {"None", "not_array"} THEN "invalid_frame"
    ELSE IF f = "empty" THEN "empty_frame"
    ELSE IF ~Truthy(d) THEN "no_detections"
    ELSE "ok"

\* The cooldown test letting a call through one second early.
CooldownElapsed_OneEarly(cur, last, cd) == cur - last >= cd - 1

\* alert_system.py:79: the cooldown test of can_alert.
CooldownElapsed(cur, last, cd) == cur - last >= cd

\* alert_system.py:123-131: how the write ended for an outcome of cv2.imwrite
\* (returned true, returned false, raised an exception).
WriteResult(outcome) == IF outcome = "true" THEN "ok" ELSE "failed"

\* alert_system.py:121, 126, 131, 145: the screenshot field of the record, the
\* path (named by the clock reading ts) or None.
ScreenshotField(result, ts) == IF result = "ok" THEN Some(ts) ELSE None

\* alert_system.py:143-144: list(x) raises TypeError when x is not iterable.
ListRaises(x) == ~x.iterable

\* The trim keeping the oldest alerts (log[:100]) instead of the newest.
TrimLog_KeepsOldest(log) ==
    IF Len(log) > LogCap THEN SubSeq(log, 1, LogCap) ELSE log

\* alert_system.py:153-154: keep only the last 100 alerts.
TrimLog(log) == IF Len(log) > LogCap THEN PySliceFrom(log, -LogCap) ELSE log

\* Some other thread is inside trigger_alert, past the validation.
OtherInTrigger(t) ==
    \E u \in Threads \ {t} : op[u] = "trigger_alert" /\ pc[u] \notin {"idle", "done"}

\* alert_system.py:83-106: thread t calls trigger_alert(f, d, sc); the inputs
\* are validated, and a rejected call returns None.
CallTriggerAlert(t, f, d, sc) ==
    /\ pc[t] = "idle"
    /\ frame' = Set(frame, t, f)
    /\ detections' = Set(detections, t, d)
    /\ confidence_scores' = Set(confidence_scores, t, sc)
    /\ IF Validate(f, d) = "ok"
       THEN /\ pc' = Set(pc, t, "can_alert")
            /\ overlapped' = (overlapped \/ OtherInTrigger(t))
       ELSE /\ pc' = Set(pc, t, "done")
            /\ UNCHANGED overlapped
    /\ op' = Set(op, t, "trigger_alert")
    /\ ret' = Set(ret, t, RetNone)
    /\ ncalls' = ncalls + 1
    /\ UNCHANGED <<now, shared, count, current_time, granted, imwrite, played,
                   screenshot_path, alert_info, next_id, accepted, appended>>
    /\ UNCHANGED <<accepted_at, appended_at>>
    /\ UNCHANGED returned

\* alert_system.py:83-106: a trigger_alert call of a thread that uses the
\* AlertSystem directly, with each of the arguments explored.
TriggerAlert(t) ==
    /\ ncalls < MaxCalls
    /\ \E a \in TriggerArgs : CallTriggerAlert(t, a[1], a[2], a[3])
    /\ UNCHANGED <<dvars, pvars>>

\* alert_system.py:75-81, 108-110: can_alert() under the lock, and the return
\* of None when it denies.
CanAlert(t) ==
    /\ pc[t] = "can_alert"
    /\ lock = NoThread
    /\ \E reading \in ReadingsFrom(now) :
        /\ now' = reading
        /\ current_time' = Set(current_time, t, reading)
        /\ LET ok == CooldownElapsed(reading, last_alert_time, cooldown)
           IN  /\ granted' = Set(granted, t, ok)
               /\ pc' = Set(pc, t, IF ok THEN "update" ELSE "done")
    /\ UNCHANGED <<shared, op, frame, detections, confidence_scores, count,
                   imwrite, played, screenshot_path, alert_info, ret, history>>
    /\ UNCHANGED <<accepted_at, dvars, pvars>>

\* The with block of line 114 reaching over the screenshot and the sound.
LockAfterUpdate_StillHeld(t) == t

\* alert_system.py:114-115: the with block holds the assignment only; the
\* lock is released before line 117.  The holder of the lock after it.
LockAfterUpdate(t) == NoThread

\* alert_system.py:113-115: last_alert_time = time.time() under the lock.
UpdateLastAlertTime(t) ==
    /\ pc[t] = "update"
    /\ lock = NoThread
    /\ \E reading \in ReadingsFrom(now) :
        /\ now' = reading
        /\ last_alert_time' = reading
        /\ accepted_at' = Set(accepted_at, t, reading)
        /\ accepted' = Append(accepted, reading)
    /\ pc' = Set(pc, t, "screenshot")
    /\ lock' = LockAfterUpdate(t)
    /\ UNCHANGED <<cooldown, sound, alert_log, op, frame, detections,
                   confidence_scores, count, current_time, granted, imwrite, played,
                   screenshot_path, alert_info, ret, next_id, ncalls, appended,
                   overlapped>>
    /\ UNCHANGED <<appended_at, dvars, pvars>>
    /\ UNCHANGED returned

\* alert_system.py:134-138: the sound thread is dispatched when a sound is
\* loaded and threading.Thread(...).start() does not raise; a start that
\* raises is logged and nothing is dispatched.
SoundDispatched(loaded, start) == loaded /\ start = "started"

\* How threading.Thread(...).start() can end.  It is called only when a sound
\* is loaded.
StartOutcomes(loaded) == IF loaded THEN {"started", "raises"} ELSE {"not_called"}

\* alert_system.py:117-138: the file name from the clock, then cv2.imwrite,
\* which returns true, returns false or raises; then the sound thread is
\* started when a sound is loaded (a failure to start it is only logged).
SaveAndPlay(t) ==
    /\ pc[t] = "screenshot"
    /\ \E reading \in ReadingsFrom(now), outcome \in {"true", "false", "raises"} :
        /\ now' = reading
        /\ imwrite' = Set(imwrite, t, WriteResult(outcome))
        /\ screenshot_path' =
               Set(screenshot_path, t, ScreenshotField(WriteResult(outcome), reading))
    /\ \E start \in StartOutcomes(sound) :
        played' = Set(played, t, SoundDispatched(sound, start))
    /\ pc' = Set(pc, t, "build")
    /\ UNCHANGED <<shared, op, frame, detections, confidence_scores, count,
                   current_time, granted, alert_info, ret, history>>
    /\ UNCHANGED <<accepted_at, dvars, pvars>>

\* alert_system.py:140-146, and 158-160 when a list() copy raises.
BuildAlertInfo(t) ==
    /\ pc[t] = "build"
    /\ \E reading \in ReadingsFrom(now) :
        /\ now' = reading
        /\ IF ListRaises(detections[t]) \/ ListRaises(confidence_scores[t])
           THEN /\ pc' = Set(pc, t, "done")
                /\ ret' = Set(ret, t, RetNone)
                /\ UNCHANGED <<alert_info, next_id>>
           ELSE /\ pc' = Set(pc, t, "append")
                /\ alert_info' = Set(alert_info, t,
                       MakeAlertInfo(next_id, reading, detections[t],
                                     confidence_scores[t], screenshot_path[t]))
                /\ next_id' = next_id + 1
                /\ UNCHANGED ret
    /\ UNCHANGED <<shared, op, frame, detections, confidence_scores, count,
                   current_time, granted, imwrite, played, screenshot_path, ncalls,
                   accepted, appended, overlapped>>
    /\ UNCHANGED <<accepted_at, appended_at, dvars, pvars>>
    /\ UNCHANGED returned

\* alert_system.py:149-150: take the lock and append.
AppendAlert(t) ==
    /\ pc[t] = "append"
    /\ lock = NoThread
    /\ lock' = t
    /\ alert_log' = Append(alert_log, alert_info[t])
    /\ appended' = Append(appended, alert_info[t].id)
    /\ pc' = Set(pc, t, "trim")
    /\ UNCHANGED <<now, cooldown, sound, last_alert_time, op, frame, detections,
                   confidence_scores, count, current_time, granted, imwrite, played,
                   screenshot_path, alert_info, ret, next_id, ncalls, accepted,
                   overlapped>>
    /\ appended_at' = Append(appended_at, accepted_at[t])
    /\ UNCHANGED <<accepted_at, dvars, pvars>>
    /\ UNCHANGED returned

\* alert_system.py:152-154: trim; the with block of line 149 ends and
\* releases the lock.  The call has not returned yet.
TrimAlertLog(t) ==
    /\ pc[t] = "trim"
    /\ lock = t
    /\ alert_log' = TrimLog(alert_log)
    /\ lock' = NoThread
    /\ pc' = Set(pc, t, "return")
    /\ UNCHANGED <<now, cooldown, sound, last_alert_time, op, frame, detections,
                   confidence_scores, count, current_time, granted, imwrite, played,
                   screenshot_path, alert_info, ret, history>>
    /\ UNCHANGED <<accepted_at, dvars, pvars>>

\* The record with identity id was appended since the last clear.
AppendedSinceClear(id) == \E k \in DOMAIN appended : appended[k] = id

\* alert_system.py:156: return alert_info, after the lock was released.
ReturnAlertInfo(t) ==
    /\ pc[t] = "return"
    /\ ret' = Set(ret, t, RetDict(alert_info[t]))
    /\ returned' = IF AppendedSinceClear(alert_info[t].id)
                   THEN returned + 1 ELSE returned
    /\ pc' = Set(pc, t, "done")
    /\ UNCHANGED <<now, shared, op, frame, detections, confidence_scores, count,
                   current_time, granted, imwrite, played, screenshot_path,
                   alert_info, next_id, ncalls, accepted, appended, appended_at,
                   overlapped>>
    /\ UNCHANGED <<accepted_at, dvars, pvars>>

\* ------------------------------------------------------- the other methods
\* Values of count explored by get_recent_alerts.
Counts == {0, 1, LogCap}

\* alert_system.py:173
RecentAlerts(log, n) == IF Len(log) > 0 THEN PySliceFrom(log, -n) ELSE <<>>

\* alert_system.py:170-173
GetRecentAlerts(t) ==
    /\ pc[t] = "idle"
    /\ lock = NoThread
    /\ \E n \in Counts :
        /\ count' = Set(count, t, n)
        /\ ret' = Set(ret, t, RetList(RecentAlerts(alert_log, n)))
    /\ op' = Set(op, t, "get_recent_alerts")
    /\ pc' = Set(pc, t, "done")
    /\ UNCHANGED <<now, shared, frame, detections, confidence_scores, current_time,
                   granted, imwrite, played, screenshot_path, alert_info, history>>
    /\ UNCHANGED <<accepted_at, dvars, pvars>>

\* alert_system.py:175-179
ClearAlerts(t) ==
    /\ pc[t] = "idle"
    /\ lock = NoThread
    /\ alert_log' = <<>>
    /\ appended' = <<>>
    /\ op' = Set(op, t, "clear_alerts")
    /\ ret' = Set(ret, t, RetNone)
    /\ pc' = Set(pc, t, "done")
    /\ UNCHANGED <<now, cooldown, sound, last_alert_time, lock, frame, detections,
                   confidence_scores, count, current_time, granted, imwrite, played,
                   screenshot_path, alert_info, next_id, ncalls, accepted, overlapped>>
    /\ appended_at' = <<>>
    /\ returned' = 0
    /\ UNCHANGED <<accepted_at, dvars, pvars>>

\* alert_system.py:181-184
GetAlertCount(t) ==
    /\ pc[t] = "idle"
    /\ lock = NoThread
    /\ ret' = Set(ret, t, RetInt(Len(alert_log)))
    /\ op' = Set(op, t, "get_alert_count")
    /\ pc' = Set(pc, t, "done")
    /\ UNCHANGED <<now, shared, frame, detections, confidence_scores, count,
                   current_time, granted, imwrite, played, screenshot_path, alert_info,
                   history>>
    /\ UNCHANGED <<accepted_at, dvars, pvars>>

\* The call of thread t is over: its locals are dropped.
DropLocals(t) ==
    /\ pc' = Set(pc, t, "idle")
    /\ op' = Set(op, t, "none")
    /\ frame' = Set(frame, t, "None")
    /\ detections' = Set(detections, t, PyNone)
    /\ confidence_scores' = Set(confidence_scores, t, PyNone)
    /\ count' = Set(count, t, 0)
    /\ current_time' = Set(current_time, t, 0)
    /\ granted' = Set(granted, t, FALSE)
    /\ imwrite' = Set(imwrite, t, "none")
    /\ played' = Set(played, t, FALSE)
    /\ screenshot_path' = Set(screenshot_path, t, None)
    /\ alert_info' = Set(alert_info, t, NoInfo)
    /\ ret' = Set(ret, t, RetNone)
    /\ accepted_at' = Set(accepted_at, t, 0)

\* The caller takes the returned value; the thread's locals are dropped.
Return(t) ==
    /\ pc[t] = "done"
    /\ DropLocals(t)
    /\ UNCHANGED <<now, shared, history>>
    /\ UNCHANGED <<dvars, pvars>>

\* ------------------------------------------------- callers of the methods
\* What the caller does to a record it was handed: record['detections'].clear().
EditRecord(r) == [r EXCEPT !.detections = <<>>]

\* The heap after the dict object with identity id was edited: every position
\* of the list that refers to that object shows the edit.
EditObject(log, id) ==
    [i \in DOMAIN log |-> IF log[i].id = id THEN EditRecord(log[i]) ELSE log[i]]

\* alert_system.py:156 returns the dict that line 150 appended, and line 173
\* returns a new list (.copy()) of the dicts of self.alert_log.  The caller
\* edits the oldest or the newest record of the value it was handed: the
\* object is the one the log refers to, and the one any value handed to
\* another thread refers to, the local alert_info of a call that has not
\* returned it yet included.
CallerEditsRecord(t) ==
    /\ pc[t] = "done"
    /\ ret[t].kind \in {"dict", "list"}
    /\ \E i \in DOMAIN ret[t].v :
        /\ i \in {1, Len(ret[t].v)}
        /\ ret[t].v[i].detections # <<>>
        /\ alert_log' = EditObject(alert_log, ret[t].v[i].id)
        /\ ret' = [u \in Threads |->
                       [ret[u] EXCEPT !.v = EditObject(ret[u].v, ret[t].v[i].id)]]
        /\ alert_info' = [u \in Threads |->
                              IF alert_info[u].id = ret[t].v[i].id
                              THEN EditRecord(alert_info[u]) ELSE alert_info[u]]
    /\ UNCHANGED <<now, cooldown, sound, last_alert_time, lock, pc, op, frame,
                   detections, confidence_scores, count, current_time, granted,
                   imwrite, played, screenshot_path, history>>
    /\ UNCHANGED <<accepted_at, dvars, pvars>>

\* alert_system.py:173: the list returned is a copy (.copy()); the caller
\* empties it.
CallerClearsList(t) ==
    /\ pc[t] = "done"
    /\ ret[t].kind = "list"
    /\ Len(ret[t].v) > 0
    /\ ret' = Set(ret, t, RetList(<<>>))
    /\ UNCHANGED <<now, shared, pc, op, frame, detections, confidence_scores, count,
                   current_time, granted, imwrite, played, screenshot_path,
                   alert_info, history>>
    /\ UNCHANGED <<accepted_at, dvars, pvars>>

\* What the caller does to a list it passed: x.clear().
ClearedList(x) == IF x.iterable THEN PyList(<<>>) ELSE x

\* The dict r after the caller cleared the two lists it passed to the call
\* that built r: a list of r that is the caller's object is empty now, a
\* list that is r's own is as it was.
AfterArgsCleared(r) ==
    [r EXCEPT !.detections = IF r.detections_obj = "callers" THEN <<>> ELSE @,
              !.confidence_scores = IF r.scores_obj = "callers" THEN <<>> ELSE @]

\* The heap after the caller of the call that built the dict with identity
\* id cleared the lists it passed.
ClearArgsOf(log, id) ==
    [i \in DOMAIN log |-> IF log[i].id = id THEN AfterArgsCleared(log[i]) ELSE log[i]]

\* After trigger_alert returned, the caller clears the detections and the
\* confidence_scores lists it passed (the arguments of alert_system.py:83).
\* alert_info[t] is the dict this call built (NoInfo, identity 0, when it
\* built none).
CallerMutatesArgs(t) ==
    /\ pc[t] = "done"
    /\ op[t] = "trigger_alert"
    /\ Truthy(detections[t])
    /\ detections' = Set(detections, t, ClearedList(detections[t]))
    /\ confidence_scores' = Set(confidence_scores, t, ClearedList(confidence_scores[t]))
    /\ alert_log' = ClearArgsOf(alert_log, alert_info[t].id)
    /\ ret' = [u \in Threads |->
                   [ret[u] EXCEPT !.v = ClearArgsOf(ret[u].v, alert_info[t].id)]]
    /\ alert_info' = Set(alert_info, t, AfterArgsCleared(alert_info[t]))
    /\ UNCHANGED <<now, cooldown, sound, last_alert_time, lock, pc, op, frame, count,
                   current_time, granted, imwrite, played, screenshot_path, history>>
    /\ UNCHANGED <<accepted_at, dvars, pvars>>

\* alert_system.py:108-156: the positions inside a trigger_alert call that
\* has passed the validation and has not returned.
InCall == {"can_alert", "update", "screenshot", "build", "append", "trim", "return"}

\* What a KeyboardInterrupt raised in thread t inside trigger_alert does to
\* the AlertSystem.  KeyboardInterrupt is no Exception: the except clause of
\* alert_system.py:158 does not catch it and the call is left; a with block
\* it passes releases the lock; what the call had written stays: the
\* cooldown consumed with nothing appended, the record appended (line 150)
\* and the log not trimmed (lines 153-154), or the record appended, the log
\* trimmed and nothing returned (line 156).
CutCall(t) ==
    /\ DropLocals(t)
    /\ lock' = IF lock = t THEN NoThread ELSE lock
    /\ UNCHANGED <<now, cooldown, sound, last_alert_time, alert_log, history>>

\* alert_system.py:108-156: Ctrl+C while thread t is inside trigger_alert,
\* between two of its statement groups.
Interrupt(t) ==
    /\ op[t] = "trigger_alert"
    /\ pc[t] \in InCall
    /\ CutCall(t)
    /\ UNCHANGED <<dvars, pvars>>

Next ==
    \/ Interrupt(MainThread)
    \/ \E t \in Threads :
        \/ TriggerAlert(t)
        \/ CanAlert(t)
        \/ UpdateLastAlertTime(t)
        \/ SaveAndPlay(t)
        \/ BuildAlertInfo(t)
        \/ AppendAlert(t)
        \/ TrimAlertLog(t)
        \/ ReturnAlertInfo(t)
        \/ GetRecentAlerts(t)
        \/ ClearAlerts(t)
        \/ GetAlertCount(t)
        \/ Return(t)

Spec == Init /\ [][Next]_vars

\* The AlertSystem as constructed, for the callers below.
InitCaller == InitFresh /\ NewDetector(TRUE) /\ NoPipeline

\* The AlertSystem with callers that edit the values they were handed and
\* the lists they passed.
NextCaller ==
    \/ Next
    \/ \E t \in Threads : CallerEditsRecord(t)
    \/ \E t \in Threads : CallerClearsList(t)
    \/ \E t \in Threads : CallerMutatesArgs(t)

SpecCaller == InitCaller /\ [][NextCaller]_vars

\* ======================================================================
\* src/src/detector.py: WeaponDetector.detect
\* ======================================================================

\* The AlertSystem that MainWindow and TerminalDetection construct:
\* AlertSystem() with the default cooldown; its sound is loaded when pygame
\* can be imported and the sound file exists and loads (alert_system.py:59-70).
DefaultAlertSystem == \E loaded \in BOOLEAN : FreshAlertSystem(DefaultCooldown, loaded)

\* Frames given to detect: None, an object that is no numpy array, an array
\* of size 0, an image.
DetectFrames == {"None", "not_array", "empty", "image"}

\* Outputs of the model explored: the call raises; no result; a result without
\* boxes (None, empty); a result whose boxes cannot be read; results with one
\* or two boxes, of which some or all raise while they are processed.
ModelOutputs ==
    {ModelRaises,
     ModelReturns(<<>>),
     ModelReturns(<<ResultNone>>),
     ModelReturns(<<ResultBoxes(<<>>)>>),
     ModelReturns(<<ResultRaises>>),
     ModelReturns(<<ResultBoxes(<<Box("pistol", 95, "no")>>)>>),
     ModelReturns(<<ResultBoxes(<<Box("pistol", 95, "before_append")>>)>>),
     ModelReturns(<<ResultBoxes(<<Box("knife", 91, "after_append")>>)>>),
     ModelReturns(<<ResultBoxes(<<Box("pistol", 95, "no"),
                                  Box("knife", 91, "before_append")>>)>>),
     ModelReturns(<<ResultRaises, ResultBoxes(<<Box("pistol", 95, "no")>>)>>)}

\* detector.py:114-124: the frame is rejected before the model is consulted.
InvalidFrame(f) == f \in {"None", "not_array", "empty"}

\* detector.py:133-135: the locals of detect before the model is run, with
\* the number of additions to self.total_detections.
NoDetections ==
    [detections |-> <<>>, confidence_scores |-> <<>>, has_detection |-> FALSE,
     total |-> 0]

\* detector.py:157-223: the boxes of one result, in order.  A box whose
\* processing raises before line 184 leaves no trace; one that raises later
\* has been added already.
RECURSIVE ProcessBoxes(_, _)
ProcessBoxes(bs, acc) ==
    IF bs = <<>> THEN acc
    ELSE LET b == Head(bs)
             added == [acc EXCEPT !.detections = Append(@, b.class_name),
                                  !.confidence_scores = Append(@, b.conf),
                                  !.total = @ + 1]
         IN  ProcessBoxes(Tail(bs), IF b.fails = "before_append" THEN acc ELSE added)

\* detector.py:148-227: the results, in order.  A result with no boxes, or
\* whose boxes cannot be read, is skipped; otherwise has_detection is set
\* (line 155) before the boxes are processed.
RECURSIVE ProcessResults(_, _)
ProcessResults(rs, acc) ==
    IF rs = <<>> THEN acc
    ELSE LET r == Head(rs)
         IN  ProcessResults(Tail(rs),
                 IF r.kind = "boxes" /\ Len(r.boxes) > 0
                 THEN ProcessBoxes(r.boxes, [acc EXCEPT !.has_detection = TRUE])
                 ELSE acc)

\* detector.py:113-240: what detect(f) returns and what it adds to
\* frame_count, total_detections and error_count, for a detector whose
\* model_loaded is loaded and whose model does out.
DetectOutcome(f, loaded, out) ==
    IF InvalidFrame(f)
    THEN [ret |-> DetectReturn("blank", <<>>, <<>>, FALSE),
          frames |-> 0, total |-> 0, errors |-> 0]
    ELSE IF ~loaded
    THEN [ret |-> DetectReturn("copy", <<>>, <<>>, FALSE),
          frames |-> 0, total |-> 0, errors |-> 0]
    ELSE IF out.raises
    THEN [ret |-> DetectReturn("copy", <<>>, <<>>, FALSE),
          frames |-> 1, total |-> 0, errors |-> 1]
    ELSE LET acc == ProcessResults(out.results, NoDetections)
         IN  [ret |-> DetectReturn(IF acc.has_detection THEN "annotated" ELSE "copy",
                                   acc.detections, acc.confidence_scores,
                                   acc.has_detection),
              frames |-> 1, total |-> acc.total, errors |-> 0]

\* The effect of self.detector.detect(f) on the detector.
DetectEffect(f, out) ==
    LET o == DetectOutcome(f, model_loaded, out)
    IN  /\ d_frame' = f
        /\ d_out' = out
        /\ d_ret' = o.ret
        /\ frame_count' = frame_count + o.frames
        /\ total_detections' = total_detections + o.total
        /\ error_count' = error_count + o.errors
        /\ d_calls' = d_calls + 1
        /\ UNCHANGED model_loaded

\* detector.py:100-240: a call of detect.
Detect ==
    /\ d_calls < MaxDetects
    /\ \E f \in DetectFrames, out \in ModelOutputs : DetectEffect(f, out)
    /\ UNCHANGED <<avars, pvars>>

\* detector.py:250-253: reset_stats.
ResetStats ==
    /\ frame_count' = 0
    /\ total_detections' = 0
    /\ UNCHANGED <<model_loaded, error_count, d_frame, d_out, d_ret, d_calls>>
    /\ UNCHANGED <<avars, pvars>>

\* A WeaponDetector on its own, its model loaded or not.
InitDetector ==
    /\ \E loaded \in BOOLEAN : NewDetector(loaded)
    /\ DefaultAlertSystem
    /\ NoPipeline

\* detector.py:63-98: load_model, called by __init__ (line 46) and callable
\* again: the model is loaded when the weights file exists and YOLO loads
\* it, and is None otherwise.  The statistics are not touched.
LoadModel ==
    /\ \E loaded \in BOOLEAN : model_loaded' = loaded
    /\ UNCHANGED <<frame_count, total_detections, error_count, d_frame, d_out, d_ret,
                   d_calls>>
    /\ UNCHANGED <<avars, pvars>>

NextDetector == Detect \/ ResetStats \/ LoadModel

SpecDetector == InitDetector /\ [][NextDetector]_vars

\* ======================================================================
\* src/src/gui_main.py: MainWindow and VideoThread
\* src/src/terminal_detection.py: TerminalDetection
\* ======================================================================
\* The loop thread is followed statement group by statement group, the GUI
\* thread through start_detection, stop_detection and handle_detection.  The
\* captures deliver at most MaxFrames frames in all; once a read has failed
\* the source is dead and every later read fails.  The loops call
\* trigger_alert from one thread (the GUI thread, the terminal's main
\* thread); the call runs through the same statement groups as in Spec, so
\* the VideoThread steps, and Ctrl+C falls, between any two of them.

\* alert_system.py:108-156: the next statement group of the trigger_alert
\* call the main thread is in.
AlertStep ==
    \E t \in {MainThread} :
        \/ CanAlert(t)
        \/ UpdateLastAlertTime(t)
        \/ SaveAndPlay(t)
        \/ BuildAlertInfo(t)
        \/ AppendAlert(t)
        \/ TrimAlertLog(t)
        \/ ReturnAlertInfo(t)

\* gui_main.py:363 and terminal_detection.py:81: if has_detection and
\* detections.
HasAlertableDetection(r) == r.has_detection /\ r.detections # <<>>

\* What cap.read() can return as ret: a dead source gives False.
ReadOutcomes(src, n) == IF src = "ok" /\ n < MaxFrames THEN {TRUE, FALSE} ELSE {FALSE}

\* gui_main.py:31: VideoThread.__init__ constructs a new WeaponDetector.
ConstructDetector ==
    /\ \E loaded \in BOOLEAN : model_loaded' = loaded
    /\ frame_count' = 0
    /\ total_detections' = 0
    /\ error_count' = 0
    /\ d_frame' = "None"
    /\ d_out' = ModelRaises
    /\ d_ret' = NoDetectReturn
    /\ d_calls' = 0

\* gui_main.py:317-332: start_detection (the Start button is enabled):
\* a new VideoThread, running = False (line 29), and start().
StartDetection ==
    /\ mode = "gui"
    /\ mainpc = "ready"
    /\ ~is_running
    /\ video_thread' = TRUE
    /\ running' = FALSE
    /\ ConstructDetector
    /\ lpc' = "open"
    /\ is_running' = TRUE
    /\ cap' = "none"
    /\ source' = "ok"
    /\ exit_reason' = "none"
    /\ surfaced' = FALSE
    /\ stop_observed' = FALSE
    /\ UNCHANGED signals
    /\ UNCHANGED <<mode, mainpc, frames>>
    /\ UNCHANGED avars

\* gui_main.py:334-337, 404-406 and 75-77: stop_detection (Stop button or
\* closeEvent) finds a video_thread and calls its stop(), which clears running.
StopDetection ==
    /\ mode = "gui"
    /\ mainpc = "ready"
    /\ video_thread
    /\ running' = FALSE
    /\ mainpc' = "wait"
    /\ UNCHANGED signals
    /\ UNCHANGED <<mode, lpc, video_thread, is_running, cap, source, frames,
                   exit_reason, surfaced, stop_observed>>
    /\ UNCHANGED <<avars, dvars>>

\* gui_main.py:78 and 338-346: wait() returns once run() has returned; then
\* video_thread = None, is_running = False, the status shows STOPPED.
StopReturns ==
    /\ mainpc = "wait"
    /\ lpc = "finished"
    /\ video_thread' = FALSE
    /\ is_running' = FALSE
    /\ mainpc' = "ready"
    /\ lpc' = "none"
    /\ UNCHANGED signals
    /\ UNCHANGED <<mode, running, cap, source, frames, exit_reason, surfaced,
                   stop_observed>>
    /\ UNCHANGED <<avars, dvars>>

\* gui_main.py:361-383: the GUI thread, back in its event loop, delivers the
\* oldest queued detection_signal to handle_detection.  update_image has been
\* delivered before it (line 60 emits the frame before line 61 emits the
\* detections), so current_frame is set.  With a detection and a
\* video_thread (line 373) trigger_alert is called with the shown frame;
\* otherwise only labels change and the handler returns.
HandleDetection ==
    /\ mode = "gui"
    /\ mainpc = "ready"
    /\ signals # <<>>
    /\ signals' = Tail(signals)
    /\ LET r == Head(signals)
       IN  IF HasAlertableDetection(r) /\ video_thread
           THEN /\ CallTriggerAlert(MainThread, "image", PyList(r.detections),
                                    PyList(r.confidence_scores))
                /\ mainpc' = "alert"
           ELSE /\ UNCHANGED avars
                /\ UNCHANGED mainpc
    /\ UNCHANGED <<mode, running, lpc, video_thread, is_running, cap, source,
                   frames, exit_reason, surfaced, stop_observed>>
    /\ UNCHANGED dvars

\* gui_main.py:383-395: trigger_alert has returned; with a record the log
\* entry is written and get_alert_count() shown (it reads the length under
\* the lock and changes nothing); handle_detection returns.
HandleDetectionReturns ==
    /\ mode = "gui"
    /\ mainpc = "alert"
    /\ pc[MainThread] = "done"
    /\ lock = NoThread
    /\ DropLocals(MainThread)
    /\ mainpc' = "ready"
    /\ UNCHANGED <<now, shared, history>>
    /\ UNCHANGED signals
    /\ UNCHANGED <<mode, running, lpc, video_thread, is_running, cap, source,
                   frames, exit_reason, surfaced, stop_observed>>
    /\ UNCHANGED dvars

\* gui_main.py:36-39: run() opens the capture (the camera may be unusable).
Run_Open ==
    /\ mode = "gui"
    /\ lpc = "open"
    /\ cap' = "open"
    /\ \E ok \in BOOLEAN : source' = IF ok THEN "ok" ELSE "dead"
    /\ lpc' = "set_running"
    /\ UNCHANGED signals
    /\ UNCHANGED <<mode, running, mainpc, video_thread, is_running, frames,
                   exit_reason, surfaced, stop_observed>>
    /\ UNCHANGED <<avars, dvars>>

\* gui_main.py:41: self.running = True.
Run_SetRunning ==
    /\ mode = "gui"
    /\ lpc = "set_running"
    /\ running' = TRUE
    /\ lpc' = "check"
    /\ UNCHANGED signals
    /\ UNCHANGED <<mode, mainpc, video_thread, is_running, cap, source, frames,
                   exit_reason, surfaced, stop_observed>>
    /\ UNCHANGED <<avars, dvars>>

\* gui_main.py:49: ret is False: nothing is done, the loop tests running again.
AfterFailedRead == "check"

\* gui_main.py:72-73: after the loop, release the capture.
AfterLoop == "release"

\* gui_main.py:47: while self.running.
Run_Check ==
    /\ mode = "gui"
    /\ lpc = "check"
    /\ IF running
       THEN /\ lpc' = "read"
            /\ UNCHANGED <<exit_reason, stop_observed>>
       ELSE /\ lpc' = AfterLoop
            /\ exit_reason' = "stop"
            /\ stop_observed' = TRUE
    /\ UNCHANGED signals
    /\ UNCHANGED <<mode, running, mainpc, video_thread, is_running, cap, source,
                   frames, surfaced>>
    /\ UNCHANGED <<avars, dvars>>

\* gui_main.py:48-49: ret, frame = self.cap.read().
Run_Read ==
    /\ mode = "gui"
    /\ lpc = "read"
    /\ \E ok \in ReadOutcomes(source, frames) :
        IF ok
        THEN /\ frames' = frames + 1
             /\ lpc' = "detect"
             /\ UNCHANGED source
        ELSE /\ source' = "dead"
             /\ lpc' = AfterFailedRead
             /\ UNCHANGED frames
    /\ UNCHANGED signals
    /\ UNCHANGED <<mode, running, mainpc, video_thread, is_running, cap,
                   exit_reason, surfaced, stop_observed>>
    /\ UNCHANGED <<avars, dvars>>

\* gui_main.py:51: self.detector.detect(frame).
Run_Detect ==
    /\ mode = "gui"
    /\ lpc = "detect"
    /\ \E out \in ModelOutputs : DetectEffect("image", out)
    /\ lpc' = "publish"
    /\ UNCHANGED signals
    /\ UNCHANGED <<mode, running, mainpc, video_thread, is_running, cap, source,
                   frames, exit_reason, surfaced, stop_observed>>
    /\ UNCHANGED avars

\* gui_main.py:53-70: the frame and the detections are emitted to the GUI
\* thread (queued signals; emit does not wait for the slots).
Run_Publish ==
    /\ mode = "gui"
    /\ lpc = "publish"
    /\ lpc' = "check"
    /\ signals' = Append(signals, d_ret)
    /\ UNCHANGED <<mode, running, mainpc, video_thread, is_running, cap, source,
                   frames, exit_reason, surfaced, stop_observed>>
    /\ UNCHANGED <<avars, dvars>>

\* gui_main.py:72-73: self.cap.release(), and run() returns.
Run_Release ==
    /\ mode = "gui"
    /\ lpc = "release"
    /\ cap' = "released"
    /\ lpc' = "finished"
    /\ UNCHANGED signals
    /\ UNCHANGED <<mode, running, mainpc, video_thread, is_running, source, frames,
                   exit_reason, surfaced, stop_observed>>
    /\ UNCHANGED <<avars, dvars>>



\* terminal_detection.py:40-50 (called from main, line 189): start() makes
\* the cv2.VideoCapture of the source, which opens it or does not.
Term_Start ==
    /\ mode = "terminal"
    /\ lpc = "none"
    /\ \E ok \in BOOLEAN :
        IF ok
        THEN /\ cap' = "open"
             /\ source' = "ok"
        ELSE /\ source' = "dead"
             /\ UNCHANGED cap
    /\ lpc' = "opened"
    /\ UNCHANGED signals
    /\ UNCHANGED <<mode, running, mainpc, video_thread, is_running, frames,
                   exit_reason, surfaced, stop_observed>>
    /\ UNCHANGED <<avars, dvars>>

\* terminal_detection.py:52-54: if not cap.isOpened(): an error is printed
\* and start returns.
Term_CheckOpened ==
    /\ mode = "terminal"
    /\ lpc = "opened"
    /\ IF cap = "open"
       THEN /\ lpc' = "set_running"
            /\ UNCHANGED <<surfaced, exit_reason>>
       ELSE /\ surfaced' = TRUE
            /\ exit_reason' = "not_opened"
            /\ lpc' = "returned"
    /\ UNCHANGED signals
    /\ UNCHANGED <<mode, running, mainpc, video_thread, is_running, cap,
                   source, frames, stop_observed>>
    /\ UNCHANGED <<avars, dvars>>

\* terminal_detection.py:56-65: self.running = True.
Term_SetRunning ==
    /\ mode = "terminal"
    /\ lpc = "set_running"
    /\ running' = TRUE
    /\ lpc' = "check"
    /\ UNCHANGED signals
    /\ UNCHANGED <<mode, mainpc, video_thread, is_running, cap, source, frames,
                   exit_reason, surfaced, stop_observed>>
    /\ UNCHANGED <<avars, dvars>>

\* terminal_detection.py:68: while self.running.
Term_Check ==
    /\ mode = "terminal"
    /\ lpc = "check"
    /\ IF running
       THEN /\ lpc' = "read"
            /\ UNCHANGED <<exit_reason, stop_observed>>
       ELSE /\ lpc' = "finally"
            /\ exit_reason' = "stop"
            /\ stop_observed' = TRUE
    /\ UNCHANGED signals
    /\ UNCHANGED <<mode, running, mainpc, video_thread, is_running, cap, source,
                   frames, surfaced>>
    /\ UNCHANGED <<avars, dvars>>

\* terminal_detection.py:69: ret, frame = cap.read().
Term_Read ==
    /\ mode = "terminal"
    /\ lpc = "read"
    /\ \E ok \in ReadOutcomes(source, frames) :
        IF ok
        THEN /\ frames' = frames + 1
             /\ lpc' = "detect"
             /\ UNCHANGED source
        ELSE /\ source' = "dead"
             /\ lpc' = "read_failed"
             /\ UNCHANGED frames
    /\ UNCHANGED signals
    /\ UNCHANGED <<mode, running, mainpc, video_thread, is_running, cap,
                   exit_reason, surfaced, stop_observed>>
    /\ UNCHANGED <<avars, dvars>>

\* terminal_detection.py:71-73: if not ret: an error is printed, and break.
Term_ReadFailed ==
    /\ mode = "terminal"
    /\ lpc = "read_failed"
    /\ surfaced' = TRUE
    /\ exit_reason' = "read_failed"
    /\ lpc' = "finally"
    /\ UNCHANGED signals
    /\ UNCHANGED <<mode, running, mainpc, video_thread, is_running, cap,
                   source, frames, stop_observed>>
    /\ UNCHANGED <<avars, dvars>>

\* terminal_detection.py:78: self.detector.detect(frame).
Term_Detect ==
    /\ mode = "terminal"
    /\ lpc = "detect"
    /\ \E out \in ModelOutputs : DetectEffect("image", out)
    /\ lpc' = "show"
    /\ UNCHANGED signals
    /\ UNCHANGED <<mode, running, mainpc, video_thread, is_running, cap, source,
                   frames, exit_reason, surfaced, stop_observed>>
    /\ UNCHANGED avars

\* terminal_detection.py:80-93: with a detection it is printed and
\* trigger_alert called with the annotated frame.
Term_HandleDetection ==
    /\ mode = "terminal"
    /\ lpc = "show"
    /\ IF HasAlertableDetection(d_ret)
       THEN /\ CallTriggerAlert(MainThread, "image", PyList(d_ret.detections),
                                PyList(d_ret.confidence_scores))
            /\ lpc' = "alert"
       ELSE /\ UNCHANGED avars
            /\ lpc' = "key"
    /\ UNCHANGED signals
    /\ UNCHANGED <<mode, running, mainpc, video_thread, is_running, cap,
                   source, frames, exit_reason, surfaced, stop_observed>>
    /\ UNCHANGED dvars

\* terminal_detection.py:91-96: trigger_alert has returned; with a record
\* its screenshot path is printed.
Term_AlertReturns ==
    /\ mode = "terminal"
    /\ lpc = "alert"
    /\ pc[MainThread] = "done"
    /\ DropLocals(MainThread)
    /\ lpc' = "key"
    /\ UNCHANGED <<now, shared, history>>
    /\ UNCHANGED signals
    /\ UNCHANGED <<mode, running, mainpc, video_thread, is_running, cap,
                   source, frames, exit_reason, surfaced, stop_observed>>
    /\ UNCHANGED dvars

\* terminal_detection.py:98-117: the frame is shown and the key is read: q
\* leaves the loop, s saves the frame.
Term_ShowAndKey ==
    /\ mode = "terminal"
    /\ lpc = "key"
    /\ \E key \in {"none", "q", "s"} :
        IF key = "q"
        THEN /\ exit_reason' = "quit"
             /\ lpc' = "finally"
        ELSE /\ lpc' = "check"
             /\ UNCHANGED exit_reason
    /\ UNCHANGED signals
    /\ UNCHANGED <<mode, running, mainpc, video_thread, is_running, cap,
                   source, frames, surfaced, stop_observed>>
    /\ UNCHANGED <<avars, dvars>>

\* terminal_detection.py:43-65: Ctrl+C before the try block is entered:
\* KeyboardInterrupt leaves start(); neither the except nor the finally
\* clause runs, and what start() had done so far stays (the capture made or
\* not, opened or not; past line 54, line 62 run or not).
Term_InterruptBeforeTry ==
    /\ mode = "terminal"
    /\ lpc \in {"none", "opened", "set_running"}
    /\ \E set \in BOOLEAN : running' = (running \/ (set /\ lpc = "set_running"))
    /\ exit_reason' = "interrupt_before_loop"
    /\ lpc' = "returned"
    /\ UNCHANGED signals
    /\ UNCHANGED <<mode, mainpc, video_thread, is_running, cap, source,
                   frames, surfaced, stop_observed>>
    /\ UNCHANGED <<avars, dvars>>

\* terminal_detection.py:68-73, 119-120: Ctrl+C at the loop test, inside
\* cap.read(), or after a read that failed and before its error is printed:
\* the except clause prints, the finally clause follows.
Term_Interrupt ==
    /\ mode = "terminal"
    /\ lpc \in {"check", "read", "read_failed"}
    /\ exit_reason' = "interrupt"
    /\ lpc' = "finally"
    /\ UNCHANGED signals
    /\ UNCHANGED <<mode, running, mainpc, video_thread, is_running, cap,
                   source, frames, surfaced, stop_observed>>
    /\ UNCHANGED <<avars, dvars>>

\* terminal_detection.py:78, 119-120 and detector.py:131-238: Ctrl+C before
\* or inside detect(frame).  KeyboardInterrupt is no Exception, so no except
\* clause of detect catches it: the call does not return, and the counters
\* keep what the call had added when it was cut: nothing, the frame (line
\* 131), and then any number of the detections and the error of the call.
Term_InterruptInDetect ==
    /\ mode = "terminal"
    /\ lpc = "detect"
    /\ \E out \in ModelOutputs, counted \in BOOLEAN :
        LET o == DetectOutcome("image", model_loaded, out)
        IN  IF counted /\ o.frames = 1
            THEN /\ frame_count' = frame_count + 1
                 /\ \E k \in 0..o.total : total_detections' = total_detections + k
                 /\ \E e \in 0..o.errors : error_count' = error_count + e
            ELSE UNCHANGED <<frame_count, total_detections, error_count>>
    /\ exit_reason' = "interrupt"
    /\ lpc' = "finally"
    /\ UNCHANGED <<model_loaded, d_frame, d_out, d_ret, d_calls>>
    /\ UNCHANGED signals
    /\ UNCHANGED <<mode, running, mainpc, video_thread, is_running, cap, source,
                   frames, surfaced, stop_observed>>
    /\ UNCHANGED avars

\* terminal_detection.py:80-117, 119-120: Ctrl+C before trigger_alert is
\* called, between two statement groups of it, or after it has returned (in
\* imshow or waitKey).  Inside the call the AlertSystem is left as CutCall
\* says.
Term_InterruptInShow ==
    /\ mode = "terminal"
    /\ lpc \in {"show", "alert", "key"}
    /\ IF lpc = "alert"
       THEN CutCall(MainThread)
       ELSE UNCHANGED avars
    /\ exit_reason' = "interrupt"
    /\ lpc' = "finally"
    /\ UNCHANGED signals
    /\ UNCHANGED <<mode, running, mainpc, video_thread, is_running, cap,
                   source, frames, surfaced, stop_observed>>
    /\ UNCHANGED dvars

\* terminal_detection.py:122-124: Ctrl+C when the finally clause has been
\* entered and cap.release() has not run yet: KeyboardInterrupt leaves
\* start() and the capture stays open.  (Later in the clause the capture is
\* released already, as after Term_Finally.)
Term_InterruptInFinally ==
    /\ mode = "terminal"
    /\ lpc = "finally"
    /\ lpc' = "returned"
    /\ UNCHANGED signals
    /\ UNCHANGED <<mode, running, mainpc, video_thread, is_running, cap, source,
                   frames, exit_reason, surfaced, stop_observed>>
    /\ UNCHANGED <<avars, dvars>>

\* terminal_detection.py:122-137: finally: cap.release(), the summary is
\* printed, and start() returns.
Term_Finally ==
    /\ mode = "terminal"
    /\ lpc = "finally"
    /\ cap' = "released"
    /\ lpc' = "returned"
    /\ UNCHANGED signals
    /\ UNCHANGED <<mode, running, mainpc, video_thread, is_running, source, frames,
                   exit_reason, surfaced, stop_observed>>
    /\ UNCHANGED <<avars, dvars>>

\* A MainWindow (gui_main.py:92-96) or a TerminalDetection
\* (terminal_detection.py:27-30) right after construction.
InitPipeline ==
    /\ mode \in {"gui", "terminal"}
    /\ running = FALSE
    /\ lpc = "none"
    /\ mainpc = "ready"
    /\ video_thread = FALSE
    /\ is_running = FALSE
    /\ cap = "none"
    /\ source = "ok"
    /\ frames = 0
    /\ exit_reason = "none"
    /\ surfaced = FALSE
    /\ stop_observed = FALSE
    /\ signals = <<>>
    /\ \E loaded \in BOOLEAN : NewDetector(loaded)
    /\ DefaultAlertSystem

\* The steps of the loop thread (VideoThread.run, TerminalDetection.start).
LoopStep ==
    \/ Run_Open
    \/ Run_SetRunning
    \/ Run_Check
    \/ Run_Read
    \/ Run_Detect
    \/ Run_Publish
    \/ Run_Release
    \/ Term_CheckOpened
    \/ Term_SetRunning
    \/ Term_Check
    \/ Term_Read
    \/ Term_ReadFailed
    \/ Term_Detect
    \/ Term_HandleDetection
    \/ Term_AlertReturns
    \/ Term_ShowAndKey
    \/ Term_Finally

NextPipeline ==
    \/ StartDetection
    \/ StopDetection
    \/ StopReturns
    \/ HandleDetection
    \/ HandleDetectionReturns
    \/ AlertStep
    \/ Term_Start
    \/ Term_InterruptBeforeTry
    \/ Term_Interrupt
    \/ Term_InterruptInDetect
    \/ Term_InterruptInShow
    \/ Term_InterruptInFinally
    \/ LoopStep

\* A started thread keeps running (every frame read and every detect call
\* returns), wait() returns once the thread has finished, the event loop of
\* the GUI thread delivers the queued signals, and a trigger_alert call runs
\* on to its return (its lock is never held by another thread here).
\* Nothing makes the user press Start, Stop, q or Ctrl+C.
SpecPipeline ==
    /\ InitPipeline
    /\ [][NextPipeline]_vars
    /\ WF_vars(LoopStep)
    /\ WF_vars(StopReturns)
    /\ WF_vars(HandleDetection)
    /\ WF_vars(HandleDetectionReturns)
    /\ WF_vars(AlertStep)

\* The pipeline is Idle: nothing runs and the GUI shows STOPPED (or has not
\* started yet), or start() is not running.
PipelineIdle ==
    IF mode = "gui" THEN mainpc = "ready" /\ ~is_running
    ELSE lpc \in {"none", "returned"}


\* ======================================================================
\* Properties
\* ======================================================================

\* Thread t's trigger_alert call has returned and t holds what it returned.
Done(t) == pc[t] = "done" /\ op[t] = "trigger_alert"

\* The call of thread t returns in this step.  A property of what a call
\* returns is stated on this step: the state after it is the state at the
\* return, before any other thread moves on.
Returns(t) == pc[t] # "done" /\ pc'[t] = "done"

\* The trigger_alert call of thread t leaves the with block of
\* alert_system.py:149-154 in this step: the state after it is the first
\* another thread can see with t's record in it.
LeavesLock(t) == pc[t] = "trim" /\ pc'[t] = "return"

\* The arguments of t's call pass the validation of alert_system.py:95-106:
\* a non-empty image and non-empty detections.
PassesValidation(t) == frame[t] = "image" /\ Truthy(detections[t])

\* The arguments of t's call are as documented: an image, a non-empty list of
\* detections, a list of confidence scores.
ValidInputs(t) ==
    /\ frame[t] = "image"
    /\ detections[t].iterable /\ Len(detections[t].items) > 0
    /\ confidence_scores[t].iterable

ReturnedRecord(t) == ret[t].kind = "dict"
ReturnedNone(t) == ret[t].kind = "None"

Last(seq) == seq[Len(seq)]
Front(seq) == SubSeq(seq, 1, Len(seq) - 1)
Abs(x) == IF x < 0 THEN -x ELSE x

\* The record t's call built is the last of alert_log.
RecordIsLast(t) == Len(alert_log) > 0 /\ Last(alert_log) = alert_info[t]

\* t's call has built its record: it returns it, or has just returned it.
ReturnsRecord(t) ==
    /\ op[t] = "trigger_alert"
    /\ \/ pc[t] \in {"append", "trim", "return"}
       \/ pc[t] = "done" /\ ReturnedRecord(t)

\* ---------------------------------------------------------------- C1
\* C1 (as claimed): of the trigger_alert calls with valid inputs whose cooldown
\* checks fall within one cooldown window, at most one returns a record: no
\* two calls that return a record have their can_alert readings less than
\* cooldown apart.
C1_OneRecordPerWindow ==
    \A u \in Threads : \A v \in Threads \ {u} :
        (ValidInputs(u) /\ ValidInputs(v) /\ ReturnsRecord(u) /\ ReturnsRecord(v))
            => Abs(current_time[u] - current_time[v]) >= cooldown

\* ---------------------------------------------------------------- C2
\* C2: as long as no two trigger_alert calls have overlapped, any two values
\* written to last_alert_time are at least cooldown apart.
C2_AcceptedCooldownApart ==
    ~overlapped =>
        \A i \in DOMAIN accepted : \A j \in DOMAIN accepted :
            i < j => accepted[j] - accepted[i] >= cooldown

\* Two alerts were accepted one after the other under a positive cooldown.
C2_Witness == ~overlapped /\ cooldown > 0 /\ Len(accepted) >= 2

\* ---------------------------------------------------------------- C3
\* C3 (as claimed): whenever the lock is free, alert_log holds at most 100
\* records.
C3_LogBounded == lock = NoThread => Len(alert_log) <= LogCap

\* ---------------------------------------------------------------- C4
\* What get_recent_alerts(100) of thread t returns once more than 100
\* records were appended without a clear: the last 100 of them in the order
\* they were appended.
RecentIsFifo(t) ==
    (op[t] = "get_recent_alerts" /\ count[t] = LogCap /\ Len(appended) > LogCap)
    => /\ Len(ret[t].v) = LogCap
       /\ \A i \in 1..LogCap :
            ret[t].v[i].id = appended[Len(appended) - LogCap + i]

\* C4: once more than 100 records were appended without a clear, every
\* get_recent_alerts(100) returns, at its return, the last 100 of them in
\* the order they were appended.
C4_RecentIsFifo == [][\A t \in Threads : Returns(t) => RecentIsFifo(t)']_vars

\* get_recent_alerts(100) has returned after 101 or more appends.
C4_Witness ==
    \E t \in Threads :
        /\ pc[t] = "done" /\ op[t] = "get_recent_alerts" /\ count[t] = LogCap
        /\ Len(appended) > LogCap
        /\ Len(ret[t].v) = LogCap

\* ---------------------------------------------------------------- C5
\* C5: a trigger_alert call whose frame is None, no array or empty, or whose
\* detections are empty, returns None at once and changes neither
\* last_alert_time nor alert_log, writes no screenshot and dispatches no sound.
C5_RejectedCallHasNoEffect ==
    [][\A t \in Threads :
        (/\ pc[t] = "idle"
         /\ op'[t] = "trigger_alert"
         /\ \/ frame'[t] \in {"None", "not_array", "empty"}
            \/ Len(detections'[t].items) = 0)
        => /\ pc'[t] = "done"
           /\ ret'[t] = RetNone
           /\ last_alert_time' = last_alert_time
           /\ alert_log' = alert_log
           /\ accepted' = accepted
           /\ imwrite'[t] = "none"
           /\ played'[t] = FALSE]_vars

\* A call with empty detections has returned None while the cooldown would
\* have let an alert through and a sound is loaded.
C5_Witness ==
    \E t \in Threads :
        /\ Done(t) /\ frame[t] = "image" /\ Len(detections[t].items) = 0
        /\ ReturnedNone(t)
        /\ sound
        /\ now - last_alert_time >= cooldown

\* ---------------------------------------------------------------- C6
\* The values written to last_alert_time before t's call wrote its own.
EarlierAccepted(t) == IF granted[t] THEN Front(accepted) ELSE accepted

\* The call of thread t, made with inputs that pass the validation after an
\* alert was accepted and overlapping no other call, returns None when its
\* can_alert reading is less than cooldown after that alert's acceptance
\* instant, and a record otherwise.
CooldownWindow(t) ==
    (Done(t) /\ PassesValidation(t) /\ ~overlapped /\ Len(EarlierAccepted(t)) > 0)
    => IF current_time[t] - Last(EarlierAccepted(t)) < cooldown
       THEN ReturnedNone(t)
       ELSE ReturnedRecord(t)

\* C6 (as claimed): with calls made one after the other, every call with
\* valid inputs (a non-empty frame, non-empty detections) that follows an
\* accepted alert returns None when it is made less than cooldown after
\* that alert's acceptance instant, and returns a record otherwise.
C6_CooldownWindow == [][\A t \in Threads : Returns(t) => CooldownWindow(t)']_vars

\* ---------------------------------------------------------------- C7
\* The call of thread t, let through by can_alert, returns a record.
GrantedCallAppends(t) == (Done(t) /\ granted[t]) => ReturnedRecord(t)

\* C7 (as claimed): a call that can_alert let through returns a record, and
\* the record it returns is one it has appended: it was the last of
\* alert_log when the call released the lock.
C7_GrantedCallAppends ==
    [][\A t \in Threads :
          /\ Returns(t) => GrantedCallAppends(t)'
          /\ LeavesLock(t) => RecordIsLast(t)']_vars

\* ---------------------------------------------------------------- C8
\* The call of thread t, whose screenshot write failed, returns a record
\* with screenshot None, and last_alert_time was written by the call.
FailedScreenshotStillRecords(t) ==
    (Done(t) /\ imwrite[t] = "failed")
    => /\ ReturnedRecord(t)
       /\ ret[t].v[1].screenshot = None
       /\ last_alert_time >= current_time[t]
       /\ \E i \in DOMAIN accepted : accepted[i] >= current_time[t]

\* The record of thread t, whose screenshot write failed, is the last of
\* alert_log and the log is trimmed.
FailedScreenshotStillAppends(t) ==
    imwrite[t] = "failed" => RecordIsLast(t) /\ Len(alert_log) <= LogCap

\* C8 (as claimed): every trigger_alert call whose screenshot write fails
\* (cv2.imwrite returns false or raises) returns a record whose screenshot
\* is None, with the cooldown consumed; the record was appended and the log
\* trimmed when the call released the lock.
C8_FailedScreenshotStillRecords ==
    [][\A t \in Threads :
          /\ Returns(t) => FailedScreenshotStillRecords(t)'
          /\ LeavesLock(t) => FailedScreenshotStillAppends(t)']_vars

\* ---------------------------------------------------------------- C9
\* The call of thread t, the first on a fresh AlertSystem with cooldown 5,
\* made with valid inputs at t = 0, returns a record and the log then holds
\* one record.
FirstCallAtZero(t) ==
    (Done(t) /\ ncalls = 1 /\ cooldown = DefaultCooldown /\ ValidInputs(t)
        /\ current_time[t] = 0)
    => ReturnedRecord(t) /\ Len(alert_log) = 1

\* C9 (as claimed, first step of the scenario): on a fresh AlertSystem with
\* cooldown 5, the first call, made with valid inputs at t = 0, returns a
\* record and the log holds one record when it returns.
C9_FirstCallAtZero == [][\A t \in Threads : Returns(t) => FirstCallAtZero(t)']_vars

\* ---------------------------------------------------------------- C10
\* What get_recent_alerts(count) of thread t returns is the min(count, len)
\* most recently appended records, newest last.
RecentReturnsMinCount(t) ==
    op[t] = "get_recent_alerts"
    => LET k == Min(count[t], Len(alert_log))
       IN  ret[t].v = SubSeq(alert_log, Len(alert_log) - k + 1, Len(alert_log))

\* C10 (as claimed): get_recent_alerts(count) returns the min(count, len) most
\* recently appended records of the log as it is at the return, newest last.
C10_RecentReturnsMinCount ==
    [][\A t \in Threads : Returns(t) => RecentReturnsMinCount(t)']_vars

\* ---------------------------------------------------------------- C11
\* C11 (as claimed): nothing a caller does to a value it was handed (the list
\* returned by get_recent_alerts, a record in it, the record returned by
\* trigger_alert) changes what a later get_recent_alerts returns, for any
\* count: a step of a caller holding a returned value leaves every
\* get_recent_alerts result as it was.
C11_CallerCannotChangeLedger ==
    [][\A t \in Threads :
          (pc[t] = "done" /\ pc'[t] = "done" /\ ret'[t] # ret[t])
          => \A n \in Counts : RecentAlerts(alert_log', n) = RecentAlerts(alert_log, n)]_vars

\* ---------------------------------------------------------------- C12
\* C12 (as claimed): stop() never blocks its caller for ever: whenever the GUI
\* thread has entered VideoThread.stop (running cleared, waiting for the loop
\* thread), at whatever point of run() the loop thread is, stop() eventually
\* returns, given that the loop thread keeps running and every frame read and
\* detect call returns.
C12_StopReturns == (mainpc = "wait") ~> (mainpc = "ready")

\* ---------------------------------------------------------------- C13
\* C13 (as claimed): once the frame source is permanently unavailable (a read
\* or the opening has failed and every later read fails), the detection loop
\* terminates of its own accord: unless the user asks the GUI to stop or
\* ends the terminal program with Ctrl+C, the pipeline eventually is Idle
\* with an error shown to the user; for VideoThread.run and for
\* TerminalDetection.start.
C13_DeadSourceEndsLoop ==
    (source = "dead" /\ mainpc # "wait")
        ~> \/ PipelineIdle /\ surfaced
           \/ mainpc = "wait"
           \/ exit_reason \in {"interrupt", "interrupt_before_loop"}

\* ---------------------------------------------------------------- C14
\* What get_alert_count of thread t returns, while no trigger_alert call is
\* between its append and its return (line 156), is the number of
\* trigger_alert calls that appended and returned a record since the
\* AlertSystem was constructed or last cleared.
CountIsTotalAccepted(t) ==
    (op[t] = "get_alert_count" /\ \A u \in Threads : pc[u] # "return")
    => ret[t].n = returned

\* C14 (as claimed): get_alert_count returns the number of alerts accepted
\* (trigger_alert calls that returned a record) since the AlertSystem was
\* constructed or last cleared, however many there were.
C14_CountIsTotalAccepted ==
    [][\A t \in Threads : Returns(t) => CountIsTotalAccepted(t)']_vars

\* ---------------------------------------------------------------- C15
\* The value written to last_alert_time by the call that produced record r.
AcceptedAtOf(r) == appended_at[CHOOSE k \in DOMAIN appended : appended[k] = r.id]

\* C15 (as claimed): the records of alert_log are in the order of their
\* acceptance instants: of two neighbours in the log (hence of any two
\* records), the earlier one's call wrote last_alert_time no later than the
\* later one's call.
C15_LogInAcceptanceOrder ==
    \A i \in 1..(Len(alert_log) - 1) :
        AcceptedAtOf(alert_log[i]) <= AcceptedAtOf(alert_log[i + 1])

\* ---------------------------------------------------------------- C16
\* C16 (as claimed): the timestamp of the record a trigger_alert call returns
\* is the instant that call wrote to last_alert_time (to the second, the
\* precision of the stored timestamp), whatever the clock does between the
\* steps of the call.
C16_TimestampIsAcceptanceInstant ==
    \A t \in Threads :
        (Done(t) /\ ReturnedRecord(t)) => ret[t].v[1].timestamp = accepted_at[t]

\* ---------------------------------------------------------------- C17
\* C17 (as claimed): on a freshly constructed AlertSystem (no alert accepted
\* yet) the first trigger_alert call, made with valid inputs, returns a
\* record, whatever the cooldown and whatever the clock reads.
C17_FirstCallAccepted ==
    \A t \in Threads :
        (Done(t) /\ ncalls = 1 /\ Len(EarlierAccepted(t)) = 0 /\ ValidInputs(t))
        => ReturnedRecord(t)

\* ---------------------------------------------------------------- C18
\* The ways a detection loop is left once it has been entered.
LoopExits == {"stop", "quit", "read_failed", "interrupt"}

\* C18 (as claimed): whenever a detection loop has been left (stop signal,
\* quit key, failed read, interrupt), the capture is released by the time
\* the loop thread has ended and hence whenever the pipeline is Idle; and
\* once the loop test has seen the stop signal, the thread is at no step that
\* reads, detects or publishes a frame.
C18_ReleasedBeforeIdle ==
    /\ (exit_reason \in LoopExits /\ (PipelineIdle \/ lpc \in {"finished", "returned"}))
           => cap = "released"
    /\ stop_observed =>
          lpc \notin {"read", "read_failed", "detect", "publish", "show", "alert", "key"}

\* ---------------------------------------------------------------- C19
\* The last detect call met a per-frame failure: a frame that is None, no
\* array or empty, or a model call that raised.
PerFrameFailure == InvalidFrame(d_frame) \/ (model_loaded /\ d_out.raises)

\* C19 (as claimed): a detect call that meets a per-frame failure returns
\* (it does not raise) empty detections, empty scores and has_detection =
\* False with a copy of the frame or a blank frame, and adds exactly one to
\* error_count.
C19_FailureIsCounted ==
    [][(d_calls' = d_calls + 1 /\ PerFrameFailure')
          => /\ d_ret'.detections = <<>>
             /\ d_ret'.confidence_scores = <<>>
             /\ ~d_ret'.has_detection
             /\ d_ret'.frame \in {"copy", "blank"}
             /\ error_count' = error_count + 1]_vars

\* ---------------------------------------------------------------- C20
\* C20 (as claimed): what detect returns has has_detection = True exactly when
\* its detections list is not empty, for every frame and every model output.
C20_FlagIffDetections ==
    d_calls > 0 => (d_ret.has_detection <=> d_ret.detections # <<>>)

\* ---------------------------------------------------------------- C21
\* Record r names a screenshot file that a record of log names too.
SharesScreenshot(r, log) ==
    /\ r.screenshot # None
    /\ \E k \in DOMAIN log : log[k].screenshot = r.screenshot

\* C21 (as claimed): no two records of alert_log name the same screenshot
\* file: a record that trigger_alert appends with a screenshot names a file
\* that no record already in the log names, for every cooldown and however
\* the calls overlap.
C21_ScreenshotsDistinct ==
    [][\A t \in Threads :
          (pc[t] = "append" /\ pc'[t] = "trim")
          => ~SharesScreenshot(alert_info[t], alert_log)]_vars

\* ---------------------------------------------------------------- C22
\* C22: a stored record holds its own copy of detections and
\* confidence_scores: when the caller, after trigger_alert returned, clears
\* the lists it passed, no record of alert_log changes, the returned record
\* does not change, and get_recent_alerts returns afterwards what it would
\* have returned before, for every count.
C22_ArgsAreCopied ==
    [][\A t \in Threads :
          (pc[t] = "done" /\ pc'[t] = "done" /\ detections'[t] # detections[t])
          => /\ alert_log' = alert_log
             /\ ret'[t] = ret[t]
             /\ \A n \in Counts :
                    RecentAlerts(alert_log', n) = RecentAlerts(alert_log, n)]_vars

\* A caller was handed a record and has cleared the lists it passed; the
\* record of that call is in the log with its detections and scores.
C22_Witness ==
    \E t \in Threads :
        /\ Done(t)
        /\ ReturnedRecord(t)
        /\ detections[t] = PyList(<<>>)
        /\ confidence_scores[t] = PyList(<<>>)
        /\ \E k \in DOMAIN alert_log :
            /\ alert_log[k].id = alert_info[t].id
            /\ alert_log[k].detections = <<"pistol">>
            /\ alert_log[k].confidence_scores = <<95>>

\* ---------------------------------------------------------------- C23
\* Thread t is at alert_system.py:117-138: it names the file, calls
\* cv2.imwrite and starts the sound thread.
InScreenshotOrSound(t) == pc[t] = "screenshot"

\* C23 (as claimed): in every reachable state in which some thread is inside
\* cv2.imwrite or starting the sound thread, the lock is free: no thread
\* holds it.
C23_LockFreeDuringIo ==
    \A t \in Threads : InScreenshotOrSound(t) => lock = NoThread

\* C23 (amended): a thread that is inside cv2.imwrite or starting the sound
\* thread does not hold the lock; another thread may hold it meanwhile, for
\* the append and trim of its own record.
C23_IoThreadHoldsNoLock ==
    \A t \in Threads : InScreenshotOrSound(t) => lock # t

\* One thread is writing its screenshot while the other holds the lock for
\* its append.
C23_Witness ==
    \E t \in Threads, u \in Threads :
        /\ u # t
        /\ InScreenshotOrSound(t)
        /\ pc[u] = "trim"
        /\ lock = u

====
